---- MODULE Spec2Model ----
(***************************************************************************)
(* Model of src/src/utils/model/train.py: class Trainer.                   *)
(*                                                                         *)
(* A sample is identified by its position (0-based) in the data store; a   *)
(* numpy array is a TLA+ sequence, so the Python index k is the sequence   *)
(* index k + 1.  The model object handed to set_model, the progress        *)
(* notifiers and the plotting library are collaborators outside train.py:  *)
(* they are modelled by the contract train.py relies on.                   *)
(***************************************************************************)
EXTENDS Integers, Sequences, FiniteSets, TLC

(***************************************************************************)
(* Bounds of the model.                                                    *)
(***************************************************************************)
\* largest number of samples in the data store
MaxN == 4
\* largest `epochs` argument of fit()
MaxEpochs == 2
\* window size of the periodic evaluation: `test_freq = 100` (line 173),
\* scaled down so that a partition of MaxN samples holds whole windows
test_freq == 2
\* snapshot cadence: `visualize_freq = 2000` (line 162), scaled down so that
\* MaxEpochs sweeps over MaxN samples reach it more than once
visualize_freq == 3

\* validation_split values, as fractions <<numerator, denominator>>
Ratios == {<<0, 1>>, <<1, 4>>, <<1, 2>>}
\* shape (rows, columns) of one sample as stored on disk
RawShape == <<4, 3>>
\* input shapes a caller's model may declare
InputShapes == {<<3, 4>>, <<4, 3>>, <<5, 5>>}
\* pooling-layer output shapes a caller's model may declare
OutputShapes == {<<9, 50>>, <<3, 4>>}
\* the flattened feature size the windowed evaluation reshapes to (line 192)
FlatSize == 9 * 50

(***************************************************************************)
(* Helpers on arrays.                                                      *)
(***************************************************************************)
Range(s) == {s[k] : k \in DOMAIN s}

Min(S) == CHOOSE x \in S : \A y \in S : x <= y

\* the elements of a set of integers in ascending order
RECURSIVE Ascending(_)
Ascending(S) == IF S = {} THEN <<>> ELSE <<Min(S)>> \o Ascending(S \ {Min(S)})

\* numpy fancy indexing a[idx]: the elements of a at the 0-based indices idx
Take(a, idx) == [k \in 1..Len(idx) |-> a[idx[k] + 1]]

\* injective sequences of length n over the set S
InjSeqs(S, n) == {s \in [1..n -> S] : \A a, b \in 1..n : a # b => s[a] # s[b]}

\* int(x) of a non-negative or negative quotient a / b: truncation toward zero
IntTrunc(a, b) == IF a >= 0 THEN a \div b ELSE -((-a) \div b)

(***************************************************************************)
(* sklearn.utils.shuffle(data, labels, random_state=0): both arrays are    *)
(* permuted by RandomState(0).shuffle(arange(n)), i.e. MT19937 seeded with *)
(* 0 driving numpy's Fisher-Yates loop.  The table is that permutation for *)
(* n = 0..6; entry k is the store index that lands at position k.          *)
(***************************************************************************)
ShuffleIndices(n) ==
    CASE n = 0 -> <<>>
      [] n = 1 -> <<0>>
      [] n = 2 -> <<1, 0>>
      [] n = 3 -> <<2, 1, 0>>
      [] n = 4 -> <<2, 3, 1, 0>>
      [] n = 5 -> <<2, 0, 1, 3, 4>>
      [] n = 6 -> <<5, 2, 1, 3, 0, 4>>

\* the label stores used as inputs: k classes 1..k laid out cyclically
CyclicLabels(n, k) == [p \in 1..n |-> ((p - 1) % k) + 1]

\* three classes with gaps: the labels 1, 3, 5 laid out cyclically
SparseLabels(n) == [p \in 1..n |-> 2 * ((p - 1) % 3) + 1]

LabelStores(n) == {CyclicLabels(n, k) : k \in 1..3} \cup {SparseLabels(n)}

\* the outcomes of np.random.choice(n, size, replace=False) over all states
\* of the process-wide generator: permutation(n)[:size]
ChoiceOutcomes(n, size) == InjSeqs(0..(n - 1), size)

(***************************************************************************)
(* Trainer.read_data, lines 43-79, as a function of the two stores, the    *)
(* validation split and the outcome of the np.random.choice call.          *)
(***************************************************************************)
ValSize(datasize, valsplit) == IntTrunc(datasize * valsplit[1], valsplit[2])

TrainSize(datasize, valsplit) == datasize - ValSize(datasize, valsplit)

\* a read_data that leaves the validation indices in the training set
TrainIndices_NoDelete(datasize, val_indices) == Ascending(0..(datasize - 1))

\* np.delete(np.arange(datasize), val_indices)
TrainIndices(datasize, val_indices) ==
    Ascending((0..(datasize - 1)) \ Range(val_indices))

\* the per-sample shape after the transposition of lines 53-59
DataShape(raw) == <<raw[2], raw[1]>>

ReadData(datasize, labelstore, valsplit, val_indices) ==
    LET perm     == ShuffleIndices(datasize)
        data     == perm
        labels   == [k \in 1..datasize |-> labelstore[perm[k] + 1]]
        train_indices == TrainIndices(datasize, val_indices)
    IN  [ valsize     |-> ValSize(datasize, valsplit),
          trainsize   |-> TrainSize(datasize, valsplit),
          valdata     |-> Take(data, val_indices),
          traindata   |-> Take(data, train_indices),
          vallabels   |-> Take(labels, val_indices),
          trainlabels |-> Take(labels, train_indices),
          datashape   |-> DataShape(RawShape) ]

(***************************************************************************)
(* State.                                                                  *)
(***************************************************************************)
VARIABLES
    datastore,         \* number of samples in the data store (the input)
    labelstore,        \* the label store read at construction (the input)
    valsplit,          \* self.valsplit
    valsize, trainsize, valdata, traindata, vallabels, trainlabels, datashape,
    trainindex, valindex,
    train_prog, val_prog,      \* the two ProgressNotifiers
    model,             \* self.model and the mode flag of the attached model
    pc,                \* "idle", or the position inside a running fit()
    ret,               \* outcome of the last completed call
    epochs, epoch, i,  \* fit(): argument and loop counters
    train_potentials, val_potentials,
    feature_map_activations,
    score, train_scores, val_scores,
    warned,            \* fit() printed the "automatically unfrozen" warning
    twin               \* a second Trainer constructed over the same stores

part == <<valsize, trainsize, valdata, traindata, vallabels, trainlabels,
          datashape>>

cursors == <<trainindex, valindex>>

progs == <<train_prog, val_prog>>

locals == <<epochs, epoch, i, train_potentials, val_potentials,
            feature_map_activations, score, train_scores, val_scores,
            warned>>

vars == <<datastore, labelstore, valsplit, part, cursors, progs, model, pc, ret,
          locals, twin>>

(***************************************************************************)
(* Values.                                                                 *)
(***************************************************************************)
\* self.model before any successful set_model: the attribute does not exist
NoModel == [set |-> FALSE, input_shape |-> <<0, 0>>,
            output_shape |-> <<0, 0>>, is_training |-> FALSE]

\* the model objects a caller may hand to set_model
Models == [set : {TRUE}, input_shape : InputShapes,
           output_shape : OutputShapes, is_training : BOOLEAN]

NoTwin == [built |-> FALSE, train |-> {}, val |-> {}]

TrainExhaustedMsg == "Trainer reached the end of the training data. To use further, call trainer.reset() to reset the index to 0."

ValExhaustedMsg == "Trainer reached the end of the validation data. To use further, call trainer.reset() to reset the index to 0."

ShapeMsg == "The data in the trainer has a different shape than what this model was initialized for."

NoAttributeMsg == "'Trainer' object has no attribute 'model'"

ModelNotSetMsg == "Model is not set. Call trainer.set_model() with an appropriate model instance."

\* outcome of a call: the exception it raised (empty for none) and, for
\* next/valnext, the sample returned (-1 for none); for fit, epochs is the
\* argument of the call, at the place inside fit() where the exception was
\* raised and epoch the value of the loop counter there
Returned(op, value) ==
    [op |-> op, exc |-> "", msg |-> "", value |-> value, at |-> "",
     epoch |-> -1, epochs |-> -1]

Raised(op, exc, msg) ==
    [op |-> op, exc |-> exc, msg |-> msg, value |-> -1, at |-> "",
     epoch |-> -1, epochs |-> -1]

\* the value of the local score before the first window (the string Nan)
NanScore == [kind |-> "Nan", phase |-> "", epoch |-> -1, lo |-> -1, hi |-> -1]

\* an empty cell of np.empty(...)
Unwritten == [sample |-> -1, learning |-> FALSE]

\* idle values of fit()'s local variables
NoLocals ==
    /\ epochs = 0 /\ epoch = 0 /\ i = 0
    /\ train_potentials = <<>> /\ val_potentials = <<>>
    /\ feature_map_activations = <<>>
    /\ score = NanScore /\ train_scores = <<>> /\ val_scores = <<>>

(***************************************************************************)
(* ProgressNotifier (src/utils/generic.py, not part of train.py): keeps    *)
(* the metrics it was given since its last reset.                          *)
(***************************************************************************)
ProgNew == <<>>

ProgReset(prog) == <<>>

ProgUpdate(prog, metrics) == Append(prog, metrics)

\* np.mean(scores): nan for an empty list (a RuntimeWarning, no exception)
Mean(scores) == [nan |-> scores = <<>>, over |-> scores]

NoMean == [nan |-> FALSE, over |-> <<>>]

\* the mappings {'Accuracy': score} and {'Mean Accuracy': np.mean(scores)}
AccuracyMetric(sc) == [key |-> "Accuracy", score |-> sc, mean |-> NoMean]

MeanMetric(scores) ==
    [key |-> "Mean Accuracy", score |-> NanScore, mean |-> Mean(scores)]

(***************************************************************************)
(* Trainer.__init__, lines 21-36: the state after construction.            *)
(***************************************************************************)
Constructed(store, split, val_indices) ==
    LET r == ReadData(Len(store), store, split, val_indices)
    IN  /\ datastore = Len(store)
        /\ labelstore = store
        /\ valsplit = split
        /\ valsize = r.valsize
        /\ trainsize = r.trainsize
        /\ valdata = r.valdata
        /\ traindata = r.traindata
        /\ vallabels = r.vallabels
        /\ trainlabels = r.trainlabels
        /\ datashape = r.datashape
        /\ trainindex = 0
        /\ valindex = 0
        /\ train_prog = ProgNew
        /\ val_prog = ProgNew
        /\ model = NoModel

Init ==
    /\ \E n \in 0..MaxN : \E store \in LabelStores(n) : \E split \in Ratios :
         \E val_indices \in ChoiceOutcomes(n, ValSize(n, split)) :
            Constructed(store, split, val_indices)
    /\ pc = "idle"
    /\ ret = Returned("__init__", -1)
    /\ NoLocals
    /\ warned = FALSE
    /\ twin = NoTwin

(***************************************************************************)
(* Trainer.next, lines 81-96.                                              *)
(***************************************************************************)
\* an increment that skips a sample
Advance_Two(index) == index + 2

\* lines 94 and 111: self.trainindex += 1, self.valindex += 1
Advance(index) == index + 1

\* a bounds check that already fails on the last element
OutOfRange_Early(arr, index) == index + 1 >= Len(arr)

\* self.traindata[self.trainindex] raises IndexError: the index is never
\* negative, so exactly when it is not below the length
OutOfRange(arr, index) == index >= Len(arr)

\* a next() that also rewinds the validation cursor
Next_Rewinding ==
    /\ pc = "idle"
    /\ IF OutOfRange(traindata, trainindex)
       THEN /\ ret' = Raised("next", "IndexError", TrainExhaustedMsg)
            /\ UNCHANGED trainindex
       ELSE /\ ret' = Returned("next", traindata[trainindex + 1])
            /\ trainindex' = Advance(trainindex)
    /\ valindex' = 0
    /\ UNCHANGED <<datastore, labelstore, valsplit, part, progs, model, pc,
                   locals, twin>>

Next_ ==
    /\ pc = "idle"
    /\ IF OutOfRange(traindata, trainindex)
       THEN /\ ret' = Raised("next", "IndexError", TrainExhaustedMsg)
            /\ UNCHANGED trainindex
       ELSE /\ ret' = Returned("next", traindata[trainindex + 1])
            /\ trainindex' = Advance(trainindex)
    /\ UNCHANGED <<datastore, labelstore, valsplit, part, valindex, progs, model, pc,
                   locals, twin>>

(***************************************************************************)
(* Trainer.valnext, lines 98-113.                                          *)
(***************************************************************************)
Valnext ==
    /\ pc = "idle"
    /\ IF OutOfRange(valdata, valindex)
       THEN /\ ret' = Raised("valnext", "IndexError", ValExhaustedMsg)
            /\ UNCHANGED valindex
       ELSE /\ ret' = Returned("valnext", valdata[valindex + 1])
            /\ valindex' = Advance(valindex)
    /\ UNCHANGED <<datastore, labelstore, valsplit, part, trainindex, progs, model, pc,
                   locals, twin>>

(***************************************************************************)
(* Trainer.reset, lines 115-121.                                           *)
(***************************************************************************)
\* a reset that forgets the validation index
ResetBody_TrainOnly ==
    /\ trainindex' = 0
    /\ valindex' = valindex
    /\ train_prog' = ProgReset(train_prog)
    /\ val_prog' = ProgReset(val_prog)

\* a reset() that restarts the progress trackers and leaves the cursors
ResetBody_KeepCursors ==
    /\ UNCHANGED cursors
    /\ train_prog' = ProgReset(train_prog)
    /\ val_prog' = ProgReset(val_prog)

ResetBody ==
    /\ trainindex' = 0
    /\ valindex' = 0
    /\ train_prog' = ProgReset(train_prog)
    /\ val_prog' = ProgReset(val_prog)

Reset ==
    /\ pc = "idle"
    /\ ResetBody
    /\ ret' = Returned("reset", -1)
    /\ UNCHANGED <<datastore, labelstore, valsplit, part, model, pc, locals, twin>>

(***************************************************************************)
(* Trainer.set_model, lines 123-131.                                       *)
(***************************************************************************)
\* a set_model without the shape check
ShapeAccepted_Any(m) == TRUE

ShapeAccepted(m) == datashape = m.input_shape

SetModel(m) ==
    /\ pc = "idle"
    /\ IF ~ShapeAccepted(m)
       THEN /\ ret' = Raised("set_model", "ValueError", ShapeMsg)
            /\ UNCHANGED model
       ELSE /\ model' = m
            /\ ret' = Returned("set_model", -1)
    /\ UNCHANGED <<datastore, labelstore, valsplit, part, cursors, progs, pc, locals,
                   twin>>

(***************************************************************************)
(* The model object (src/utils/model, not part of train.py): freeze() and  *)
(* unfreeze() switch the mode flag conv_layer.is_training, and a forward   *)
(* pass yields the output for the sample in the mode the model is in.      *)
(***************************************************************************)
Freeze(m) == [m EXCEPT !.is_training = FALSE]

Unfreeze(m) == [m EXCEPT !.is_training = TRUE]

Forward(m, sample) == [sample |-> sample, learning |-> m.is_training]

(***************************************************************************)
(* Trainer.fit, lines 133-237, one action per stretch of straight-line     *)
(* code.  fit() runs to its end without interleaving: while pc is not      *)
(* "idle" only the steps of fit() are enabled.                             *)
(***************************************************************************)
NoOutcome == Returned("", -1)

\* the values fit()'s locals take when the call is over
ClearLocals ==
    /\ epochs' = 0 /\ epoch' = 0 /\ i' = 0
    /\ feature_map_activations' = <<>>
    /\ score' = NanScore /\ train_scores' = <<>> /\ val_scores' = <<>>

\* a fit() that unfreezes the model in a finally clause
Propagate_Restoring(at, exc, msg, m) ==
    /\ pc' = "idle"
    /\ ret' = [Raised("fit", exc, msg) EXCEPT
                  !.at = at, !.epoch = epoch, !.epochs = epochs]
    /\ model' = [m EXCEPT !.is_training = TRUE]
    /\ ClearLocals
    /\ train_potentials' = <<>>
    /\ val_potentials' = <<>>

\* An exception leaves fit(): lines 133-237 hold no try/except/finally, so
\* the model m stays in the mode it had where the exception was raised, and
\* the potentials collected so far are lost.
Propagate(at, exc, msg, m) ==
    /\ pc' = "idle"
    /\ ret' = [Raised("fit", exc, msg) EXCEPT
                  !.at = at, !.epoch = epoch, !.epochs = epochs]
    /\ model' = m
    /\ ClearLocals
    /\ train_potentials' = <<>>
    /\ val_potentials' = <<>>

\* line 136, `if not self.model`: __init__ never assigns self.model, so
\* before the first successful set_model the attribute read itself raises
\* AttributeError; an attached model object is truthy, which leaves the
\* ValueError of line 137 unreached
ModelCheck(m) == IF ~m.set THEN "AttributeError" ELSE ""

\* a fit() that leaves a frozen model as it found it
CheckFrozen_Keep(m) == m

\* lines 142-145
CheckFrozen(m) == IF ~m.is_training THEN [m EXCEPT !.is_training = TRUE] ELSE m

WarnsFrozen(m) == ~m.is_training

\* np.empty((epochs, size, ...)): lines 149-158
EmptyTensor(e, size) ==
    [c \in (0..(e - 1)) \X (0..(size - 1)) |-> Unwritten]

Fit(e) ==
    /\ pc = "idle"
    /\ IF ModelCheck(model) # ""
       THEN /\ pc' = "idle"
            /\ ret' = [Raised("fit", ModelCheck(model), NoAttributeMsg)
                          EXCEPT !.at = "fit", !.epochs = e]
            /\ ClearLocals
            /\ train_potentials' = <<>>
            /\ val_potentials' = <<>>
            /\ warned' = FALSE
            /\ UNCHANGED model
            /\ UNCHANGED <<datastore, labelstore, valsplit, part, cursors, progs, twin>>
       ELSE /\ model' = CheckFrozen(model)
            /\ warned' = WarnsFrozen(model)
            /\ epochs' = e
            /\ epoch' = 0
            /\ i' = 0
            /\ train_potentials' = EmptyTensor(e, trainsize)
            /\ val_potentials' = EmptyTensor(e, valsize)
            /\ feature_map_activations' = <<>>
            /\ pc' = "epoch"
            /\ ret' = NoOutcome
            /\ UNCHANGED <<datastore, labelstore, valsplit, part, cursors, progs, score,
                           train_scores, val_scores, twin>>

\* lines 165-178: the head of one epoch
EpochBegin ==
    /\ pc = "epoch"
    /\ epoch < epochs
    /\ ResetBody
    /\ model' = Unfreeze(model)
    /\ score' = NanScore
    /\ train_scores' = <<>>
    /\ i' = 0
    /\ pc' = "train"
    /\ UNCHANGED <<datastore, labelstore, valsplit, part, ret, epochs, epoch,
                   train_potentials, val_potentials, feature_map_activations,
                   val_scores, warned, twin>>

\* a[lo:hi] for 0 <= lo
Slice(a, lo, hi) == SubSeq(a, lo + 1, IF hi > Len(a) THEN Len(a) ELSE hi)

\* a snapshot cadence that counts the samples of the current epoch only
SnapshotDue_PerEpoch(ep, size, k) == (k + 1) % visualize_freq = 0

\* line 182
SnapshotDue(ep, size, k) == (ep * size + k + 1) % visualize_freq = 0

\* a cadence that also fires on the multiples of test_freq + 1
WindowDue_Twice(k) ==
    (k + 1) % test_freq = 0 \/ (k + 1) % (test_freq + 1) = 0

\* lines 188 and 209
WindowDue(k) == (k + 1) % test_freq = 0

\* lines 191 and 212: the first index of the window that ends at k
WindowLo(k) == k - (test_freq - 1)

\* .reshape(test_freq, 9*50) raises ValueError unless the window holds
\* test_freq * 450 numbers
ReshapeRaises(m) == m.output_shape[1] * m.output_shape[2] # FlatSize

\* svm.SVC().fit raises ValueError when the labels hold fewer than 2 classes
SvcFitRaises(window_labels) == Cardinality(Range(window_labels)) < 2

WindowRaises(m, labels, k) ==
    \/ ReshapeRaises(m)
    \/ SvcFitRaises(Slice(labels, WindowLo(k), k + 1))

\* the failing call of a window that raises: the reshape is an argument of
\* clf.fit and is evaluated first
WindowError(m, labels, k) == IF ReshapeRaises(m) THEN "reshape" ELSE "svc"

WindowScore(phase, ep, k) ==
    [kind |-> "score", phase |-> phase, epoch |-> ep, lo |-> WindowLo(k),
     hi |-> k]

\* a store that ignores the epoch
Store_Flat(tensor, ep, k, out) == [tensor EXCEPT ![<<0, k>>] = out]

\* lines 180 and 208: train_potentials[epoch,i] = ..., val_potentials[epoch,i] = ...
Store(tensor, ep, k, out) == [tensor EXCEPT ![<<ep, k>>] = out]

\* lines 179-199: one pass of the training loop
TrainStep ==
    /\ pc = "train"
    /\ i < trainsize
    /\ IF OutOfRange(traindata, trainindex)
       THEN /\ Propagate("train", "IndexError", TrainExhaustedMsg, model)
            /\ UNCHANGED <<cursors, progs, warned>>
       ELSE LET image == traindata[trainindex + 1]
                newscore == WindowScore("train", epoch, i)
            IN  /\ trainindex' = Advance(trainindex)
                /\ UNCHANGED valindex
                /\ IF WindowDue(i) /\ WindowRaises(model, trainlabels, i)
                   THEN /\ Propagate("train", "ValueError",
                                  WindowError(model, trainlabels, i), model)
                        /\ UNCHANGED <<progs, warned>>
                   ELSE /\ train_potentials' =
                              Store(train_potentials, epoch, i,
                                    Forward(model, image))
                        /\ feature_map_activations' =
                              IF SnapshotDue(epoch, trainsize, i)
                              THEN Append(feature_map_activations,
                                          epoch * trainsize + i + 1)
                              ELSE feature_map_activations
                        /\ score' = IF WindowDue(i) THEN newscore ELSE score
                        /\ train_scores' =
                              IF WindowDue(i)
                              THEN Append(train_scores, newscore)
                              ELSE train_scores
                        /\ train_prog' =
                              ProgUpdate(train_prog, AccuracyMetric(score'))
                        /\ i' = i + 1
                        /\ UNCHANGED <<val_prog, model, pc, ret, epochs,
                                       epoch, val_potentials, val_scores,
                                       warned>>
    /\ UNCHANGED <<datastore, labelstore, valsplit, part, twin>>

\* a fit() that validates without freezing the model
TrainEnd_NoFreeze ==
    /\ pc = "train"
    /\ i >= trainsize
    /\ train_prog' = ProgUpdate(train_prog, MeanMetric(train_scores))
    /\ score' = NanScore
    /\ val_scores' = <<>>
    /\ i' = 0
    /\ pc' = "val"
    /\ UNCHANGED <<datastore, labelstore, valsplit, part, cursors, val_prog,
                   ret, epochs, epoch, train_potentials, val_potentials,
                   feature_map_activations, train_scores, warned, twin,
                   model>>

\* a fit() that carries the last training score into the validation sweep
TrainEnd_KeepScore ==
    /\ pc = "train"
    /\ i >= trainsize
    /\ train_prog' = ProgUpdate(train_prog, MeanMetric(train_scores))
    /\ val_scores' = <<>>
    /\ model' = [model EXCEPT !.is_training = FALSE]
    /\ i' = 0
    /\ pc' = "val"
    /\ UNCHANGED <<datastore, labelstore, valsplit, part, cursors, val_prog,
                   ret, epochs, epoch, train_potentials, val_potentials,
                   feature_map_activations, train_scores, warned, twin,
                   score>>

\* lines 200-206: the end of the training loop and the head of validation
TrainEnd ==
    /\ pc = "train"
    /\ i >= trainsize
    /\ train_prog' = ProgUpdate(train_prog, MeanMetric(train_scores))
    /\ score' = NanScore
    /\ val_scores' = <<>>
    /\ model' = Freeze(model)
    /\ i' = 0
    /\ pc' = "val"
    /\ UNCHANGED <<datastore, labelstore, valsplit, part, cursors, val_prog, ret, epochs,
                   epoch, train_potentials, val_potentials,
                   feature_map_activations, train_scores, warned, twin>>

\* lines 207-220: one pass of the validation loop
ValStep ==
    /\ pc = "val"
    /\ i < valsize
    /\ IF OutOfRange(valdata, valindex)
       THEN /\ Propagate("val", "IndexError", ValExhaustedMsg, model)
            /\ UNCHANGED <<cursors, progs, warned>>
       ELSE LET image == valdata[valindex + 1]
                newscore == WindowScore("val", epoch, i)
            IN  /\ valindex' = Advance(valindex)
                /\ UNCHANGED trainindex
                /\ IF WindowDue(i) /\ WindowRaises(model, vallabels, i)
                   THEN /\ Propagate("val", "ValueError",
                                  WindowError(model, vallabels, i), model)
                        /\ UNCHANGED <<progs, warned>>
                   ELSE /\ val_potentials' =
                              Store(val_potentials, epoch, i,
                                    Forward(model, image))
                        /\ score' = IF WindowDue(i) THEN newscore ELSE score
                        /\ val_scores' =
                              IF WindowDue(i)
                              THEN Append(val_scores, newscore)
                              ELSE val_scores
                        /\ val_prog' =
                              ProgUpdate(val_prog, AccuracyMetric(score'))
                        /\ i' = i + 1
                        /\ UNCHANGED <<train_prog, model, pc, ret, epochs,
                                       epoch, train_potentials,
                                       feature_map_activations, train_scores,
                                       warned>>
    /\ UNCHANGED <<datastore, labelstore, valsplit, part, twin>>

\* lines 221-230: the end of the validation loop and of the epoch
ValEnd ==
    /\ pc = "val"
    /\ i >= valsize
    /\ val_prog' = ProgUpdate(val_prog, MeanMetric(val_scores))
    /\ model' = Unfreeze(model)
    /\ epoch' = epoch + 1
    /\ pc' = "epoch"
    /\ UNCHANGED <<datastore, labelstore, valsplit, part, cursors, train_prog, ret,
                   epochs, i, train_potentials, val_potentials,
                   feature_map_activations, score, train_scores, val_scores,
                   warned, twin>>

(***************************************************************************)
(* Trainer.visualize_featuremaps, lines 277-297, called from line 234.     *)
(* plt.subplots(n, 3) rejects n = 0 (or returns an empty array, on which   *)
(* axs[-1, 0] raises IndexError), and for n = 1 it returns a 1-D array of  *)
(* axes, on which the 2-D index of line 282 raises IndexError.             *)
(***************************************************************************)
FeaturemapsRaises(activations) == Len(activations) < 2

FeaturemapsExceptions(activations) ==
    IF Len(activations) = 0 THEN {"ValueError", "IndexError"}
    ELSE {"IndexError"}

VisualizeFeaturemaps ==
    /\ pc = "epoch"
    /\ epoch >= epochs
    /\ IF FeaturemapsRaises(feature_map_activations)
       THEN \E exc \in FeaturemapsExceptions(feature_map_activations) :
               Propagate("visualize_featuremaps", exc, "axes", model)
       ELSE /\ pc' = "visualize_snn"
            /\ UNCHANGED <<model, ret, epochs, epoch, i, train_potentials,
                           val_potentials, feature_map_activations, score,
                           train_scores, val_scores>>
    /\ UNCHANGED <<datastore, labelstore, valsplit, part, cursors, progs, warned, twin>>

(***************************************************************************)
(* Trainer.visualize_snn, lines 239-275, called from line 236.             *)
(***************************************************************************)
\* int(np.ceil(len(uniques)/2)), lines 246-250
SnnRows(labels) == (Cardinality(Range(labels)) + 1) \div 2

\* lines 246-250: with fewer than 2 rows of axes the 2-D index raises
SnnAxesRaise(labels) == SnnRows(labels) < 2

\* line 266: the row int((label-1)/2) of some label lies outside the axes
SnnPlotRaises(labels) ==
    \E label \in Range(labels) : IntTrunc(label - 1, 2) >= SnnRows(labels)

VisualizeSnn ==
    /\ pc = "visualize_snn"
    /\ IF SnnAxesRaise(trainlabels)
       THEN Propagate("visualize_snn:249", "IndexError", "axes", model)
       ELSE IF SnnPlotRaises(trainlabels)
       THEN Propagate("visualize_snn:266", "IndexError", "axes",
                      Freeze(model))
       ELSE /\ model' = Freeze(model)
            /\ pc' = "idle"
            /\ ret' = [Returned("fit", -1) EXCEPT !.epochs = epochs]
            /\ ClearLocals
            /\ UNCHANGED <<train_potentials, val_potentials>>
    /\ UNCHANGED <<datastore, labelstore, valsplit, part, cursors, progs, warned, twin>>

(***************************************************************************)
(* The specification: calls on one constructed Trainer.                    *)
(***************************************************************************)
Next ==
    \/ Next_
    \/ Valnext
    \/ Reset
    \/ \E m \in Models : SetModel(m)
    \/ \E e \in 0..MaxEpochs : Fit(e)
    \/ EpochBegin
    \/ TrainStep
    \/ TrainEnd
    \/ ValStep
    \/ ValEnd
    \/ VisualizeFeaturemaps
    \/ VisualizeSnn

Spec == Init /\ [][Next]_vars

(***************************************************************************)
(* Construction as an operation: Trainer(datapath, labelpath, split) run   *)
(* on stores chosen in the initial state, and run a second time on the     *)
(* same stores with the process-wide generator in another state.           *)
(***************************************************************************)
\* sklearn.utils.shuffle (line 45) checks its arrays for a common length
\* and raises ValueError before the assert of line 47 is reached
ShuffleRaises(n, store) == n # Len(store)

ShuffleMsg == "Found input variables with inconsistent numbers of samples"

\* lines 47-48: assert data.shape[0] == labels.shape[0], on the shuffled
\* arrays, whose lengths are those of the stores
AssertRaises(n, store) == n # Len(store)

AssertMsg == "Data and labels do not fit in shape"

InitLoad ==
    /\ \E n \in 0..MaxN : \E m \in {n, n + 1} : \E store \in LabelStores(m) :
         /\ datastore = n
         /\ labelstore = store
    /\ valsplit \in Ratios
    /\ valsize = 0 /\ trainsize = 0
    /\ valdata = <<>> /\ traindata = <<>>
    /\ vallabels = <<>> /\ trainlabels = <<>>
    /\ datashape = <<0, 0>>
    /\ trainindex = 0 /\ valindex = 0
    /\ train_prog = ProgNew /\ val_prog = ProgNew
    /\ model = NoModel
    /\ pc = "unbuilt"
    /\ ret = NoOutcome
    /\ NoLocals
    /\ warned = FALSE
    /\ twin = NoTwin

Construct ==
    /\ pc = "unbuilt"
    /\ IF ShuffleRaises(datastore, labelstore)
       THEN /\ pc' = "failed"
            /\ ret' = Raised("__init__", "ValueError", ShuffleMsg)
            /\ UNCHANGED <<part, cursors, progs>>
       ELSE IF AssertRaises(datastore, labelstore)
       THEN /\ pc' = "failed"
            /\ ret' = Raised("__init__", "AssertionError", AssertMsg)
            /\ UNCHANGED <<part, cursors, progs>>
       ELSE \E val_indices \in
                 ChoiceOutcomes(datastore, ValSize(datastore, valsplit)) :
              LET r == ReadData(datastore, labelstore, valsplit, val_indices)
              IN  /\ valsize' = r.valsize
                  /\ trainsize' = r.trainsize
                  /\ valdata' = r.valdata
                  /\ traindata' = r.traindata
                  /\ vallabels' = r.vallabels
                  /\ trainlabels' = r.trainlabels
                  /\ datashape' = r.datashape
                  /\ trainindex' = 0
                  /\ valindex' = 0
                  /\ train_prog' = ProgNew
                  /\ val_prog' = ProgNew
                  /\ pc' = "idle"
                  /\ ret' = Returned("__init__", -1)
    /\ UNCHANGED <<datastore, labelstore, valsplit, model, locals, twin>>

\* the index sets of a second Trainer over the same stores and split
ConstructTwin ==
    /\ pc = "idle"
    /\ ~twin.built
    /\ \E val_indices \in
            ChoiceOutcomes(datastore, ValSize(datastore, valsplit)) :
         LET r == ReadData(datastore, labelstore, valsplit, val_indices)
         IN  twin' = [built |-> TRUE, train |-> Range(r.traindata),
                      val |-> Range(r.valdata)]
    /\ UNCHANGED <<datastore, labelstore, valsplit, part, cursors, progs,
                   model, pc, ret, locals>>

NextLoad == Construct \/ ConstructTwin

SpecLoad == InitLoad /\ [][NextLoad]_vars

(***************************************************************************)
(* Properties.                                                             *)
(***************************************************************************)
FitReturned == pc = "idle" /\ ret.op = "fit" /\ ret.exc = ""

FitRaised == pc = "idle" /\ ret.op = "fit" /\ ret.exc # ""

\* C1: once fit() has run its epochs and returned, visualization included,
\* the model is learning-enabled; and it is learning-enabled whenever fit()
\* stands between two epochs.
C1_UnfrozenAfterFit ==
    /\ FitReturned => model.is_training
    /\ (pc = "epoch" /\ epoch >= 1) => model.is_training

\* C2: two constructions over the same stores and the same validation split
\* yield the same training and validation index sets, whatever the state of
\* the process-wide random generator at either construction.
C2_PartitionDeterministic ==
    twin.built => (twin.train = Range(traindata) /\ twin.val = Range(valdata))

\* C3: |Validation| = floor(N * ratio), |Train| = N - |Validation|, the two
\* index sets are disjoint and cover all N indices, and each partition's
\* labels are the labels of its samples.
C3_Partition ==
    pc # "unbuilt" /\ pc # "failed" =>
      /\ valsize * valsplit[2] <= datastore * valsplit[1]
      /\ datastore * valsplit[1] < (valsize + 1) * valsplit[2]
      /\ trainsize = datastore - valsize
      /\ Len(valdata) = valsize
      /\ Len(traindata) = trainsize
      /\ Range(traindata) \cap Range(valdata) = {}
      /\ Range(traindata) \cup Range(valdata) = 0..(datastore - 1)
      /\ \A k \in 1..Len(traindata) :
            trainlabels[k] = labelstore[traindata[k] + 1]
      /\ \A k \in 1..Len(valdata) :
            vallabels[k] = labelstore[valdata[k] + 1]
      /\ Len(trainlabels) = trainsize
      /\ Len(vallabels) = valsize

\* a partition where floor rounds down and both parts are non-empty, after
\* calls have been made on the Trainer
C3_Witness ==
    /\ datastore = 3 /\ valsplit = <<1, 2>>
    /\ valsize = 1 /\ trainsize = 2
    /\ Cardinality(Range(labelstore)) = 3
    /\ ret.op = "valnext" /\ ret.exc = ""

\* what next() owes its caller, stated on the partition size
NextContract ==
    IF trainindex < trainsize
    THEN /\ ret' = Returned("next", traindata[trainindex + 1])
         /\ trainindex' = trainindex + 1
    ELSE /\ ret'.exc = "IndexError"
         /\ ret'.msg = TrainExhaustedMsg
         /\ trainindex' = trainindex

ValnextContract ==
    IF valindex < valsize
    THEN /\ ret' = Returned("valnext", valdata[valindex + 1])
         /\ valindex' = valindex + 1
    ELSE /\ ret'.exc = "IndexError"
         /\ ret'.msg = ValExhaustedMsg
         /\ valindex' = valindex

\* C4: from index 0 (the state a reset() leaves) each call of next() or
\* valnext() at an index below the partition size S returns the sample at
\* that index and advances the index by one, so exactly S calls succeed, in
\* order; a call at index S raises the IndexError whose message names
\* reset() and leaves the index at S, so every further call fails too.
C4_Cursor ==
    /\ []((pc = "idle" /\ ret.op = "reset") =>
             (trainindex = 0 /\ valindex = 0))
    /\ [][(Next_ => NextContract) /\ (Valnext => ValnextContract)]_vars

\* the call after the last sample of a partition of 3 has failed
C4_Witness ==
    /\ ret.op = "next" /\ ret.exc = "IndexError"
    /\ ret.msg = TrainExhaustedMsg
    /\ trainsize = 3 /\ trainindex = 3

\* C5: fit() on a Trainer without an attached model fails with the ValueError
\* "Model is not set" raised by fit itself, and fit() never gets past its
\* entry without a model.
C5_ModelNotSetError ==
    /\ pc # "idle" /\ pc # "unbuilt" /\ pc # "failed" => model.set
    /\ (FitRaised /\ ~model.set) =>
          (ret.exc = "ValueError" /\ ret.msg = ModelNotSetMsg)

\* C6: fit(epochs=1) on a training partition smaller than test_freq makes no
\* windowed evaluation, reports the mean of no scores (nan) as the epoch's
\* mean accuracy, and returns without raising.
C6_SmallPartitionCompletes ==
    (pc = "idle" /\ ret.op = "fit" /\ ret.epochs = 1 /\ model.set
        /\ trainsize < test_freq)
    => /\ Len(train_prog) >= 1
       /\ train_prog[Len(train_prog)] = MeanMetric(<<>>)
       /\ \A k \in 1..Len(train_prog) : train_prog[k].score = NanScore
       /\ ret.exc = ""

\* the per-sample shape of the dataset: the stored shape, transposed
SampleShape == <<RawShape[2], RawShape[1]>>

SetModelContract(m) ==
    IF m.input_shape = SampleShape
    THEN /\ model' = m
         /\ ret'.exc = ""
    ELSE /\ model' = model
         /\ ret'.exc = "ValueError"
         /\ ret'.msg = ShapeMsg

\* C7: set_model with a model whose input shape differs from the per-sample
\* shape of the dataset raises the shape ValueError and leaves the attached
\* model as it was, so no mismatching model is ever attached; with equal
\* shapes the model is attached.
C7_SetModel ==
    /\ [](model.set => model.input_shape = SampleShape)
    /\ [][\A m \in Models : SetModel(m) => SetModelContract(m)]_vars

\* a mismatching set_model has been refused while a model was attached
C7_Witness ==
    /\ ret.op = "set_model" /\ ret.exc = "ValueError"
    /\ model.set /\ model.output_shape = <<3, 4>>

\* the evaluating phase of the failed fit() had begun when it failed
EvalBegun == ret.at = "val" \/ ret.epoch >= 1

\* C8 as stated: a failure inside fit() after the evaluating phase of an
\* epoch has begun leaves fit() with the model learning-enabled.
C8_RestoredOnFailure == (FitRaised /\ EvalBegun) => model.is_training

\* C8, amended: fit() restores nothing on a failure. The flag keeps the value
\* it had at the failing statement: false for a failure in a validation
\* sweep or in visualize_snn after its freeze(), true for a failure in a
\* training sweep, in visualize_featuremaps or in visualize_snn before its
\* freeze().
C8_FlagAsLeft ==
    (FitRaised /\ EvalBegun) =>
       (model.is_training <=> ret.at \notin {"val", "visualize_snn:266"})

\* a windowed evaluation of the validation sweep has raised
C8_Witness ==
    /\ FitRaised /\ ret.at = "val" /\ ret.exc = "ValueError"
    /\ ~model.is_training

\* C9: fit() called with a frozen model does not fail on that account: it
\* enables learning, prints the warning and goes on, and every forward pass
\* of the first training sweep is made with learning enabled.
C9_FrozenAtFit ==
    /\ [][\A e \in 0..MaxEpochs :
            (Fit(e) /\ model.set /\ ~model.is_training) =>
               (pc' = "epoch" /\ model'.is_training /\ warned'
                  /\ ret'.exc = "")]_vars
    /\ []((pc = "train" /\ epoch = 0) =>
            /\ model.is_training
            /\ \A k \in 0..(i - 1) : train_potentials[<<0, k>>].learning)

\* the first training sweep of a fit() that found the model frozen
C9_Witness ==
    /\ pc = "train" /\ epoch = 0 /\ i = 2 /\ warned
    /\ train_potentials[<<0, 1>>].learning

\* C10: reset() sets both indices to 0 from any state and changes nothing of
\* the data or the model; the state it leaves is a fixed point of reset().
C10_Reset ==
    /\ [][Reset => (trainindex' = 0 /\ valindex' = 0
                      /\ train_prog' = ProgNew /\ val_prog' = ProgNew
                      /\ UNCHANGED <<part, model, labelstore>>)]_vars
    /\ []((pc = "idle" /\ ret.op = "reset") =>
             /\ trainindex = 0 /\ valindex = 0
             /\ ProgReset(train_prog) = train_prog
             /\ ProgReset(val_prog) = val_prog)

\* a reset() made after a fit() has returned its potentials
C10_Witness ==
    /\ pc = "idle" /\ ret.op = "reset"
    /\ trainindex = 0 /\ valindex = 0
    /\ trainsize >= 2 /\ valsize >= 1
    /\ train_potentials # <<>>
    /\ ~model.is_training

\* C11: construction over stores whose sample and label counts differ fails
\* with the error of the count check of lines 47-48, and produces no
\* partition and no Trainer.
C11_CountCheckRejects ==
    /\ (pc = "idle" /\ ret.op = "__init__") => datastore = Len(labelstore)
    /\ pc = "failed" =>
          /\ datastore # Len(labelstore)
          /\ traindata = <<>> /\ valdata = <<>>
          /\ ret.exc = "AssertionError" /\ ret.msg = AssertMsg

\* the index ranges of C12 as stated, for non-empty partitions
C12_IndexBelowSize ==
    /\ trainindex >= 0 /\ valindex >= 0
    /\ trainsize >= 1 => trainindex < trainsize
    /\ valsize >= 1 => valindex < valsize

\* C12, amended: in every reachable state each cursor index lies in
\* [0, size], the value size being reached when the partition is exhausted;
\* a successful read advances the index by exactly 1: the sample a read
\* returned is the one just below the index, and inside a sweep of fit() the
\* index equals the number of reads made in the sweep.
C12_IndexRange ==
    /\ trainindex \in 0..trainsize
    /\ valindex \in 0..valsize
    /\ (pc = "idle" /\ ret.op = "next" /\ ret.exc = "") =>
          (trainindex >= 1 /\ ret.value = traindata[trainindex])
    /\ (pc = "idle" /\ ret.op = "valnext" /\ ret.exc = "") =>
          (valindex >= 1 /\ ret.value = valdata[valindex])
    /\ pc = "train" => trainindex = i
    /\ pc = "val" => valindex = i

\* the last sample of a partition of 3 has been read
C12_Witness ==
    /\ pc = "idle" /\ ret.op = "next" /\ ret.exc = ""
    /\ trainsize = 3 /\ trainindex = 3
    /\ valsize = 1 /\ valindex = 1

\* the k-th window (k = 1, 2, ...) of a sweep of epoch ep
ExpectedWindow(phase, ep, k) ==
    [kind |-> "score", phase |-> phase, epoch |-> ep,
     lo |-> (k - 1) * test_freq, hi |-> k * test_freq - 1]

\* after n steps of a sweep exactly n div test_freq windows were evaluated,
\* the k-th over the steps (k-1)*test_freq .. k*test_freq - 1
ExpectedWindows(scores, phase, ep, n) ==
    /\ Len(scores) = n \div test_freq
    /\ \A k \in 1..Len(scores) : scores[k] = ExpectedWindow(phase, ep, k)

\* every cell of an evaluated window holds the output for the sample at its
\* index, and the labels of the window are the ones the evaluation accepted
WindowsWritten(scores, tensor, data, labels) ==
    \A k \in 1..Len(scores) :
       /\ scores[k].lo >= 0
       /\ scores[k].hi < Len(data)
       /\ \A j \in scores[k].lo..scores[k].hi :
             /\ tensor[<<scores[k].epoch, j>>] # Unwritten
             /\ tensor[<<scores[k].epoch, j>>].sample = data[j + 1]
       /\ ~SvcFitRaises(SubSeq(labels, scores[k].lo + 1, scores[k].hi + 1))

\* C13: in a sweep over a partition of size S the windowed evaluation runs
\* floor(S / test_freq) times, the k-th right after step (k+1)*test_freq - 1
\* and over exactly the steps k*test_freq .. (k+1)*test_freq - 1 of the
\* current epoch and the labels at those indices; windows are contiguous and
\* disjoint, hold only written cells and no negative index, and the trailing
\* S mod test_freq samples are never evaluated.
C13_Windows ==
    /\ pc = "train" =>
          /\ ExpectedWindows(train_scores, "train", epoch, i)
          /\ WindowsWritten(train_scores, train_potentials, traindata,
                            trainlabels)
    /\ pc = "val" =>
          /\ ExpectedWindows(train_scores, "train", epoch, trainsize)
          /\ ExpectedWindows(val_scores, "val", epoch, i)
          /\ WindowsWritten(train_scores, train_potentials, traindata,
                            trainlabels)
          /\ WindowsWritten(val_scores, val_potentials, valdata, vallabels)
    /\ (pc = "epoch" /\ epoch >= 1) =>
          /\ ExpectedWindows(train_scores, "train", epoch - 1, trainsize)
          /\ ExpectedWindows(val_scores, "val", epoch - 1, valsize)

\* a training sweep over 4 samples has evaluated its two windows, and a
\* validation sweep over 2 samples its one
C13_Witness ==
    \/ /\ pc = "train" /\ trainsize = 4 /\ i = 4 /\ epoch = 1
       /\ Len(train_scores) = 2
    \/ /\ pc = "val" /\ valsize = 2 /\ i = 2 /\ Len(val_scores) = 1

\* fit() is inside its epoch loop
InEpochs == pc \in {"epoch", "train", "val"}

\* C14: each epoch runs Resetting, Training, Evaluating, ReportingTime in
\* that order: all training forward passes of an epoch precede all of its
\* validation forward passes, every training pass is made with learning
\* enabled and every validation pass with the model frozen, and the model is
\* unfrozen again before the next epoch's first forward pass.
C14_Phases ==
    /\ pc = "epoch" => model.is_training
    /\ pc = "train" =>
          /\ model.is_training
          /\ \A j \in 0..(valsize - 1) :
                val_potentials[<<epoch, j>>] = Unwritten
    /\ pc = "val" =>
          /\ ~model.is_training
          /\ \A j \in 0..(trainsize - 1) :
                train_potentials[<<epoch, j>>] # Unwritten
          /\ \A j \in 0..(i - 1) : val_potentials[<<epoch, j>>] # Unwritten
    /\ InEpochs =>
          /\ \A c \in DOMAIN train_potentials :
                train_potentials[c] # Unwritten => train_potentials[c].learning
          /\ \A c \in DOMAIN val_potentials : ~val_potentials[c].learning

\* the validation sweep of the second epoch of a fit() that found the model
\* frozen
C14_Witness ==
    /\ pc = "val" /\ epoch = 1 /\ i = 1 /\ trainsize >= 2 /\ warned
    /\ ~val_potentials[<<1, 0>>].learning
    /\ train_potentials[<<1, 0>>].learning

\* C15: every epoch of fit() starts with both cursors at 0 whatever they were
\* before, reads the training partition exactly trainsize times and the
\* validation partition exactly valsize times, and so fit() never raises an
\* exhausted-cursor error.
C15_NoExhaustion ==
    /\ FitRaised => ret.msg \notin {TrainExhaustedMsg, ValExhaustedMsg}
    /\ pc = "train" => (trainindex = i /\ i <= trainsize /\ valindex = 0)
    /\ pc = "val" => (trainindex = trainsize /\ valindex = i /\ i <= valsize)
    /\ (pc = "epoch" /\ epoch >= 1) =>
          (trainindex = trainsize /\ valindex = valsize)
    /\ FitReturned => (trainindex = trainsize /\ valindex = valsize)

\* the second epoch of a fit() has read a training sample, both partitions
\* having been read to their end by the first
C15_Witness ==
    /\ pc = "train" /\ epoch = 1 /\ i = 1 /\ trainindex = 1 /\ valindex = 0
    /\ trainsize >= 2 /\ valsize >= 1

\* the tensor spans e epochs of the partition; its cells of the epochs before
\* ep and the first n cells of epoch ep hold the output for the sample at
\* their index, and every other cell is still unwritten
TensorFilled(tensor, data, e, ep, n) ==
    /\ DOMAIN tensor = (0..(e - 1)) \X (0..(Len(data) - 1))
    /\ \A c \in DOMAIN tensor :
          IF c[1] < ep \/ (c[1] = ep /\ c[2] < n)
          THEN tensor[c] # Unwritten /\ tensor[c].sample = data[c[2] + 1]
          ELSE tensor[c] = Unwritten

\* C16: each cell (epoch, index) of the two potentials tensors is written
\* once, when the sweep of that epoch reaches that index, with the model
\* output for the sample at that index, and after the last epoch every cell
\* of both tensors has been written.
C16_WriteOnce ==
    /\ pc = "epoch" =>
          /\ TensorFilled(train_potentials, traindata, epochs, epoch, 0)
          /\ TensorFilled(val_potentials, valdata, epochs, epoch, 0)
    /\ pc = "train" =>
          /\ TensorFilled(train_potentials, traindata, epochs, epoch, i)
          /\ TensorFilled(val_potentials, valdata, epochs, epoch, 0)
    /\ pc = "val" =>
          /\ TensorFilled(train_potentials, traindata, epochs, epoch + 1, 0)
          /\ TensorFilled(val_potentials, valdata, epochs, epoch, i)
    /\ pc = "visualize_snn" =>
          /\ TensorFilled(train_potentials, traindata, epochs, epochs, 0)
          /\ TensorFilled(val_potentials, valdata, epochs, epochs, 0)
    /\ FitReturned =>
          /\ TensorFilled(train_potentials, traindata, ret.epochs,
                          ret.epochs, 0)
          /\ TensorFilled(val_potentials, valdata, ret.epochs, ret.epochs, 0)

\* a fit() of two epochs has returned its two tensors
C16_Witness ==
    /\ FitReturned /\ ret.epochs = 2 /\ trainsize >= 2 /\ valsize >= 1
    /\ train_potentials[<<1, 1>>].sample = traindata[2]
    /\ val_potentials[<<1, 0>>].sample = valdata[1]

\* the snapshots taken once n training samples were processed in the whole
\* run: one at each positive multiple of visualize_freq up to n
SnapshotsAfter(n) ==
    /\ Len(feature_map_activations) = n \div visualize_freq
    /\ \A k \in 1..Len(feature_map_activations) :
          feature_map_activations[k] = k * visualize_freq

\* C17: feature-map snapshots follow the cumulative count of training
\* samples over all epochs: one is taken exactly when epoch * trainsize +
\* i + 1 is a positive multiple of visualize_freq, so E epochs capture
\* floor(E * trainsize / visualize_freq) snapshots, and validation samples
\* do not count.
C17_CumulativeSnapshots ==
    /\ pc = "epoch" => SnapshotsAfter(epoch * trainsize)
    /\ pc = "train" => SnapshotsAfter(epoch * trainsize + i)
    /\ pc = "val" => SnapshotsAfter((epoch + 1) * trainsize)

\* two epochs over four training samples are done: the second snapshot was
\* taken at the second sample of the second epoch
C17_Witness ==
    /\ pc = "epoch" /\ epoch = 2 /\ epochs = 2 /\ trainsize = 4
    /\ feature_map_activations = <<visualize_freq, 2 * visualize_freq>>

\* C18: whatever output shape (outH, outW) the model declares, a windowed
\* evaluation flattens its window to (window size, outH * outW) and
\* succeeds: no fit() ends in a failed reshape of a window.
C18_AnyOutputShape ==
    FitRaised => ~(ret.at \in {"train", "val"} /\ ret.msg = "reshape")

\* the score a sweep holds after n of its steps: that of its latest
\* completed window, or the sentinel when it has completed none
LatestScore(phase, ep, n) ==
    IF n \div test_freq = 0
    THEN NanScore
    ELSE ExpectedWindow(phase, ep, n \div test_freq)

\* the window scores of a whole sweep over size samples
SweepScores(phase, ep, size) ==
    [k \in 1..(size \div test_freq) |-> ExpectedWindow(phase, ep, k)]

\* the tracker was fed, step by step, the latest score of this sweep
StepsReported(prog, phase, ep, n) ==
    \A j \in 1..n :
       prog[j] = AccuracyMetric(LatestScore(phase, ep, j))

\* the tracker was fed the n steps of a finished sweep and then its mean
SweepReported(prog, phase, ep, n) ==
    /\ Len(prog) = n + 1
    /\ StepsReported(prog, phase, ep, n)
    /\ prog[n + 1] = MeanMetric(SweepScores(phase, ep, n))

\* C19: the Accuracy fed to a progress tracker at each step is the score of
\* the latest completed window of the same epoch and phase, or the sentinel
\* when there is none yet; no score passes from the training sweep to the
\* validation sweep or from one epoch to the next, and the reported mean is
\* over the window scores of that epoch and phase only.
C19_ScoreScoped ==
    /\ pc = "train" =>
          /\ Len(train_prog) = i
          /\ StepsReported(train_prog, "train", epoch, i)
          /\ score = LatestScore("train", epoch, i)
          /\ val_prog = <<>>
    /\ pc = "val" =>
          /\ SweepReported(train_prog, "train", epoch, trainsize)
          /\ Len(val_prog) = i
          /\ StepsReported(val_prog, "val", epoch, i)
          /\ score = LatestScore("val", epoch, i)
    /\ (pc = "epoch" /\ epoch >= 1) =>
          /\ SweepReported(train_prog, "train", epoch - 1, trainsize)
          /\ SweepReported(val_prog, "val", epoch - 1, valsize)

\* the first validation step of the second epoch reports the sentinel after
\* a training sweep that ended on a window score, and the first training
\* step of that epoch reported the sentinel after the first epoch
C19_Witness ==
    /\ pc = "val" /\ epoch = 1 /\ i = 1
    /\ trainsize % test_freq = 0 /\ trainsize >= test_freq
    /\ train_prog[trainsize].score.kind = "score"
    /\ train_prog[1].score = NanScore
    /\ val_prog[1].score = NanScore

\* the step is a call of the cursor operation op, made between two fit()s
CursorCall(op) == pc = "idle" /\ pc' = "idle" /\ ret'.op = op

\* C20: next(), successful or failing, leaves the validation index alone,
\* valnext() leaves the training index alone, no step of next(), valnext(),
\* reset() or fit() changes the partitions, their sizes or their labels, and
\* the two indices only ever change together by being reset to 0.
C20_Frame ==
    [][ /\ part' = part
        /\ labelstore' = labelstore
        /\ datastore' = datastore
        /\ CursorCall("next") => valindex' = valindex
        /\ CursorCall("valnext") => trainindex' = trainindex
        /\ (trainindex' # trainindex /\ valindex' # valindex) =>
              (trainindex' = 0 /\ valindex' = 0) ]_vars

\* next() has just returned a sample while the validation cursor stands
\* inside its partition
C20_Witness ==
    /\ pc = "idle" /\ ret.op = "next" /\ ret.exc = ""
    /\ trainindex >= 1 /\ valindex >= 1 /\ valindex < valsize

====
